---------------------------- MODULE Spec2Model ----------------------------
(***************************************************************************)
(* Model of Currency_Converter.py: the two conversion functions            *)
(* calculate_inr_from_usd and calculate_usd_for_target_inr, and the        *)
(* Streamlit script main() that calls them.                                *)
(*                                                                         *)
(* Numbers.  The program computes in Python floats.  The model computes    *)
(* in exact rational arithmetic: a number is a record [n, d] in lowest     *)
(* terms with d > 0.  Rounding error, overflow to inf and NaN operands of  *)
(* IEEE-754 doubles are therefore outside the model; what is kept is that  *)
(* Python's float division by zero raises ZeroDivisionError.               *)
(***************************************************************************)
EXTENDS Integers, Sequences, FiniteSets, TLC

(***************************************************************************)
(* Bound of the input sets.                                                *)
(***************************************************************************)
\* percentages tried: -50, 0, 50, ..., 50 * MaxPercentSteps (and 4.4)
MaxPercentSteps == 3

(***************************************************************************)
(* Exact rational arithmetic standing for Python's float operators.        *)
(***************************************************************************)
Abs(x) == IF x < 0 THEN -x ELSE x

RECURSIVE Gcd(_, _)
Gcd(a, b) == IF b = 0 THEN a ELSE Gcd(b, a % b)

\* the number n/d (d # 0) in lowest terms with a positive denominator
Rat(n, d) ==
    LET g == Gcd(Abs(n), Abs(d))
        s == IF d < 0 THEN -1 ELSE 1
    IN [n |-> s * (n \div g), d |-> s * (d \div g)]

Zero == Rat(0, 1)
One == Rat(1, 1)
Hundred == Rat(100, 1)

\* Python: a * b
float_mul(a, b) ==
    LET g1 == Gcd(Abs(a.n), b.d)
        g2 == Gcd(Abs(b.n), a.d)
    IN Rat((a.n \div g1) * (b.n \div g2), (a.d \div g2) * (b.d \div g1))

\* Python: a - b
float_sub(a, b) ==
    LET g == Gcd(a.d, b.d)
    IN Rat(a.n * (b.d \div g) - b.n * (a.d \div g), (a.d \div g) * b.d)

\* Python: a + b
float_add(a, b) ==
    LET g == Gcd(a.d, b.d)
    IN Rat(a.n * (b.d \div g) + b.n * (a.d \div g), (a.d \div g) * b.d)

\* Python: a / b for b # 0 (for b = 0 the operator raises, see float_div_raises)
float_truediv(a, b) ==
    LET s == IF b.n < 0 THEN -1 ELSE 1
    IN float_mul(a, [n |-> s * b.d, d |-> s * b.n])

\* Python: a / b raises ZeroDivisionError exactly when b == 0
float_div_raises(a, b) == b.n = 0

\* Python: a < b (whole parts first, then the fractional parts)
float_lt(a, b) ==
    LET wa == a.n \div a.d
        wb == b.n \div b.d
        g == Gcd(a.d, b.d)
    IN \/ wa < wb
       \/ wa = wb /\ (a.n % a.d) * (b.d \div g) < (b.n % b.d) * (a.d \div g)

\* Python: a >= b
float_ge(a, b) == ~float_lt(a, b)

(***************************************************************************)
(* The outcome of one call of a conversion function: whether it raised,    *)
(* the value it returned, and the number of st.error calls it made.        *)
(***************************************************************************)
Returned(v, nerr) == [raised |-> FALSE, value |-> v, st_error |-> nerr]
Raised(nerr) == [raised |-> TRUE, value |-> Zero, st_error |-> nerr]


(***************************************************************************)
(* calculate_inr_from_usd, line by line.                                   *)
(***************************************************************************)
\* a slip at line 18: the fee itself instead of what is left after it
net_after_paypal_percent_fee_only(amount_usd, fee_percent) ==
    float_mul(amount_usd, float_truediv(fee_percent, Hundred))

\* line 18: amount_usd * (1 - paypal_fee_percent / 100)
net_after_paypal_percent(amount_usd, fee_percent) ==
    float_mul(amount_usd, float_sub(One, float_truediv(fee_percent, Hundred)))

\* line 20: net_after_paypal_percent - paypal_fixed_fee_usd
net_after_paypal_fees(after_percent, fixed_fee_usd) ==
    float_sub(after_percent, fixed_fee_usd)

\* line 22: net_after_paypal_fees * (1 - tax_percent / 100)
net_after_tax_usd(after_fees, tax) ==
    float_mul(after_fees, float_sub(One, float_truediv(tax, Hundred)))

\* line 24: net_after_tax_usd * usd_to_inr_rate
final_inr(after_tax, rate) == float_mul(after_tax, rate)

\* a slip: a negative result replaced by zero
calculate_inr_from_usd_clamped(amount_usd, fee_percent, fixed_fee_usd, tax, rate) ==
    LET v == final_inr(
                 net_after_tax_usd(
                     net_after_paypal_fees(
                         net_after_paypal_percent(amount_usd, fee_percent),
                         fixed_fee_usd),
                     tax),
                 rate)
    IN Returned(IF float_lt(v, Zero) THEN Zero ELSE v, 0)

\* the whole function: no division by a variable, no st call, one return
calculate_inr_from_usd(amount_usd, fee_percent, fixed_fee_usd, tax, rate) ==
    Returned(
        final_inr(
            net_after_tax_usd(
                net_after_paypal_fees(
                    net_after_paypal_percent(amount_usd, fee_percent),
                    fixed_fee_usd),
                tax),
            rate),
        0)

(***************************************************************************)
(* calculate_usd_for_target_inr, line by line.                             *)
(***************************************************************************)
\* lines 48 and 49: x / 100
percent_fraction(x) == float_truediv(x, Hundred)

\* a slip at line 60: the tax left out of the denominator
denominator_of_rate_only(R, t) == R

\* line 60: R * (1 - t)
denominator_of(R, t) == float_mul(R, float_sub(One, t))

\* slips at line 61: one of the two tests left out
invalid_parameters_denominator_only(denominator, p) == denominator = Zero

invalid_parameters_fee_only(denominator, p) == float_sub(One, p) = Zero

\* line 61: denominator == 0 or (1 - p) == 0
invalid_parameters(denominator, p) ==
    denominator = Zero \/ float_sub(One, p) = Zero

\* lines 65-67: ((target_inr / denominator) + f) / (1 - p); either division
\* raises ZeroDivisionError on a zero divisor
required_usd_raises(target_inr, denominator, f, p) ==
    \/ float_div_raises(target_inr, denominator)
    \/ float_div_raises(f, float_sub(One, p))

\* a slip at lines 65-67: the fixed fee added after the division by (1 - p)
required_usd_fee_after(target_inr, denominator, f, p) ==
    float_add(
        float_truediv(float_truediv(target_inr, denominator),
                      float_sub(One, p)),
        f)

required_usd(target_inr, denominator, f, p) ==
    float_truediv(
        float_add(float_truediv(target_inr, denominator), f),
        float_sub(One, p))

\* a slip: the degenerate branch returns 0.0 without calling st.error
calculate_usd_for_target_inr_silent(target_inr, fee_percent, fixed_fee_usd, tax, rate) ==
    LET p == percent_fraction(fee_percent)
        t == percent_fraction(tax)
        denominator == denominator_of(rate, t)
    IN IF invalid_parameters(denominator, p)
         THEN Returned(Zero, 0)
       ELSE Returned(required_usd(target_inr, denominator, fixed_fee_usd, p), 0)

\* the whole function
calculate_usd_for_target_inr(target_inr, fee_percent, fixed_fee_usd, tax, rate) ==
    LET p == percent_fraction(fee_percent)
        t == percent_fraction(tax)
        R == rate
        f == fixed_fee_usd
        denominator == denominator_of(R, t)
    IN IF invalid_parameters(denominator, p)
         THEN Returned(Zero, 1)                       \* lines 62-63
       ELSE IF required_usd_raises(target_inr, denominator, f, p)
         THEN Raised(0)                               \* lines 65-67 raise
       ELSE Returned(required_usd(target_inr, denominator, f, p), 0)

(***************************************************************************)
(* What main() shows.  An f-string's {x:,.2f} keeps two decimals, so a     *)
(* shown amount is a whole number of hundredths (ties go to the even one). *)
(***************************************************************************)
Format2f(v) ==
    LET whole == v.n \div v.d
        rem == v.n % v.d
        q == (rem * 100) \div v.d
        r == (rem * 100) % v.d
        up == \/ 2 * r > v.d
              \/ 2 * r = v.d /\ q % 2 = 1
    IN whole * 100 + q + (IF up THEN 1 ELSE 0)

\* line 62: st.error("Invalid parameters. Please check your rates/fees.")
ErrorNotice == [kind |-> "error", form |-> "none", amounts |-> << >>]

\* line 131: st.success(f"You will receive approximately ...")
SuccessINR(v) ==
    [kind |-> "success", form |-> "usd_to_inr", amounts |-> <<Format2f(v)>>]

\* line 153: st.success(f"To receive ..., you should request about ...")
SuccessUSD(target, v) ==
    [kind |-> "success", form |-> "inr_to_usd",
     amounts |-> <<Format2f(target), Format2f(v)>>]

\* the notices a call of a conversion function put on the page
NoticesOf(out) == IF out.st_error = 1 THEN <<ErrorNotice>> ELSE << >>

(***************************************************************************)
(* State.                                                                  *)
(***************************************************************************)
VARIABLES
    paypal_fee_percent,     \* sidebar widget, line 84
    paypal_fixed_fee_usd,   \* sidebar widget, line 91
    tax_percent,            \* sidebar widget, line 98
    usd_to_inr_rate,        \* sidebar widget, line 105
    usd_amount,             \* widget of form "usd_to_inr", line 116
    inr_target,             \* widget of form "inr_to_usd", line 138
    display,                \* the st.error / st.success notices on the page
    calls,                  \* the conversion calls made, with their outcomes
    threads,                \* concurrent callers: where each is in its call
    frame                   \* the local variables of each caller's call

vars == <<paypal_fee_percent, paypal_fixed_fee_usd, tax_percent,
          usd_to_inr_rate, usd_amount, inr_target, display, calls,
          threads, frame>>

conc == <<threads, frame>>

widgets == <<paypal_fee_percent, paypal_fixed_fee_usd, tax_percent,
             usd_to_inr_rate, usd_amount, inr_target>>

(***************************************************************************)
(* Input values tried.                                                     *)
(***************************************************************************)
Percents == {Rat(50 * k, 1) : k \in -1 .. MaxPercentSteps} \cup {Rat(44, 10)}
FixedFees == {Rat(0, 1), Rat(3, 10)}
Rates == {Rat(-1, 1), Rat(0, 1), Rat(1, 1), Rat(82, 1)}
Amounts == {Rat(-100, 1), Rat(0, 1), Rat(100, 1), Rat(10000, 1)}

\* one call of a conversion function: its five arguments and its outcome
Call(op, amount, out) ==
    [op |-> op,
     args |-> <<amount, paypal_fee_percent, paypal_fixed_fee_usd,
                tax_percent, usd_to_inr_rate>>,
     out |-> out]

(***************************************************************************)
(* main(): the Streamlit script.  Every interaction with a widget outside  *)
(* a form, and every form submission, runs the script again from the top   *)
(* and redraws the page; a widget inside a form only keeps its new value.  *)
(***************************************************************************)
\* min_value of the six st.number_input widgets
paypal_fee_percent_min == Rat(0, 1)
paypal_fixed_fee_usd_min == Rat(0, 1)
tax_percent_min == Rat(0, 1)
\* a slip at line 107: min_value=0.0 as for the other widgets
usd_to_inr_rate_min_zero == Rat(0, 1)
usd_to_inr_rate_min == Rat(1, 1)
usd_amount_min == Rat(0, 1)
inr_target_min == Rat(0, 1)

\* st.number_input(min_value=m) takes no value below m
number_input(min_value, v) == float_ge(v, min_value)

\* the callers of the conversion functions that run concurrently
Threads == {"t1", "t2"}

\* a call's local variables: its five parameters and what it assigns
NoFrame ==
    [amount |-> Zero, fee_percent |-> Zero, fixed_fee_usd |-> Zero,
     tax |-> Zero, rate |-> Zero,
     net_after_paypal_percent |-> Zero, net_after_paypal_fees |-> Zero,
     net_after_tax_usd |-> Zero, final_inr |-> Zero,
     p |-> Zero, t |-> Zero, R |-> Zero, f |-> Zero,
     denominator |-> Zero, required_usd |-> Zero]

NoArgs == <<Zero, Zero, Zero, Zero, Zero>>

Idle ==
    [pc |-> "idle", op |-> "none", args |-> NoArgs, notices |-> 0,
     out |-> Returned(Zero, 0)]

NoCallers ==
    /\ threads = [th \in Threads |-> Idle]
    /\ frame = [th \in Threads |-> NoFrame]

\* the state after main() ran with the widgets' default values
Init ==
    /\ NoCallers
    /\ paypal_fee_percent = Rat(44, 10)
    /\ paypal_fixed_fee_usd = Rat(30, 100)
    /\ tax_percent = Rat(0, 1)
    /\ usd_to_inr_rate = Rat(82, 1)
    /\ usd_amount = Rat(100, 1)
    /\ inr_target = Rat(10000, 1)
    /\ display = << >>
    /\ calls = << >>

\* a run of main() with neither form submitted shows no notice
RerunWithoutSubmit ==
    /\ display' = << >>
    /\ calls' = << >>

SetPaypalFeePercent(v) ==
    /\ number_input(paypal_fee_percent_min, v)
    /\ paypal_fee_percent' = v
    /\ RerunWithoutSubmit
    /\ UNCHANGED <<paypal_fixed_fee_usd, tax_percent, usd_to_inr_rate,
                   usd_amount, inr_target, conc>>

SetPaypalFixedFeeUsd(v) ==
    /\ number_input(paypal_fixed_fee_usd_min, v)
    /\ paypal_fixed_fee_usd' = v
    /\ RerunWithoutSubmit
    /\ UNCHANGED <<paypal_fee_percent, tax_percent, usd_to_inr_rate,
                   usd_amount, inr_target, conc>>

SetTaxPercent(v) ==
    /\ number_input(tax_percent_min, v)
    /\ tax_percent' = v
    /\ RerunWithoutSubmit
    /\ UNCHANGED <<paypal_fee_percent, paypal_fixed_fee_usd, usd_to_inr_rate,
                   usd_amount, inr_target, conc>>

SetUsdToInrRate(v) ==
    /\ number_input(usd_to_inr_rate_min, v)
    /\ usd_to_inr_rate' = v
    /\ RerunWithoutSubmit
    /\ UNCHANGED <<paypal_fee_percent, paypal_fixed_fee_usd, tax_percent,
                   usd_amount, inr_target, conc>>

SetUsdAmount(v) ==
    /\ number_input(usd_amount_min, v)
    /\ usd_amount' = v
    /\ UNCHANGED <<paypal_fee_percent, paypal_fixed_fee_usd, tax_percent,
                   usd_to_inr_rate, inr_target, display, calls, conc>>

SetInrTarget(v) ==
    /\ number_input(inr_target_min, v)
    /\ inr_target' = v
    /\ UNCHANGED <<paypal_fee_percent, paypal_fixed_fee_usd, tax_percent,
                   usd_to_inr_rate, usd_amount, display, calls, conc>>

\* what a run shows after a conversion call: the call's own notices, then
\* the caller's st.success, or Streamlit's exception box if the call raised
ExceptionBox == [kind |-> "exception", form |-> "none", amounts |-> << >>]

ShownAfter(out, success) ==
    IF out.raised THEN NoticesOf(out) \o <<ExceptionBox>>
    ELSE NoticesOf(out) \o <<success>>

\* lines 122-131: "Calculate INR" pressed
SubmitUsdToInr ==
    LET out == calculate_inr_from_usd(usd_amount, paypal_fee_percent,
                   paypal_fixed_fee_usd, tax_percent, usd_to_inr_rate)
    IN /\ calls' = <<Call("forward", usd_amount, out)>>
       /\ display' = ShownAfter(out, SuccessINR(out.value))
       /\ UNCHANGED <<widgets, conc>>

\* lines 144-153: "Calculate USD" pressed
SubmitInrToUsd ==
    LET out == calculate_usd_for_target_inr(inr_target, paypal_fee_percent,
                   paypal_fixed_fee_usd, tax_percent, usd_to_inr_rate)
    IN /\ calls' = <<Call("inverse", inr_target, out)>>
       /\ display' = ShownAfter(out, SuccessUSD(inr_target, out.value))
       /\ UNCHANGED <<widgets, conc>>

Next ==
    \/ \E v \in Percents : SetPaypalFeePercent(v)
    \/ \E v \in FixedFees : SetPaypalFixedFeeUsd(v)
    \/ \E v \in Percents : SetTaxPercent(v)
    \/ \E v \in Rates : SetUsdToInrRate(v)
    \/ \E v \in Amounts : SetUsdAmount(v)
    \/ \E v \in Amounts : SetInrTarget(v)
    \/ SubmitUsdToInr
    \/ SubmitInrToUsd

Spec == Init /\ [][Next]_vars

(***************************************************************************)
(* The conversion functions called directly, one call after another, with  *)
(* any arguments (no widget bounds them): the four parameters are drawn    *)
(* once, the amount at each call.  calls keeps every call made, display    *)
(* every notice shown.                                                     *)
(***************************************************************************)
\* calls made in one run of the direct caller
MaxCalls == 2

InitCore ==
    /\ NoCallers
    /\ paypal_fee_percent \in Percents
    /\ paypal_fixed_fee_usd \in FixedFees
    /\ tax_percent \in Percents
    /\ usd_to_inr_rate \in Rates
    /\ usd_amount = Rat(100, 1)
    /\ inr_target = Rat(10000, 1)
    /\ display = << >>
    /\ calls = << >>

CallForward(amount) ==
    LET out == calculate_inr_from_usd(amount, paypal_fee_percent,
                   paypal_fixed_fee_usd, tax_percent, usd_to_inr_rate)
    IN /\ Len(calls) < MaxCalls
       /\ calls' = Append(calls, Call("forward", amount, out))
       /\ display' = display \o NoticesOf(out)
       /\ UNCHANGED <<widgets, conc>>

CallInverse(target) ==
    LET out == calculate_usd_for_target_inr(target, paypal_fee_percent,
                   paypal_fixed_fee_usd, tax_percent, usd_to_inr_rate)
    IN /\ Len(calls) < MaxCalls
       /\ calls' = Append(calls, Call("inverse", target, out))
       /\ display' = display \o NoticesOf(out)
       /\ UNCHANGED <<widgets, conc>>

\* calculate_inr_from_usd(calculate_usd_for_target_inr(target, ...), ...)
CallRoundTrip(target) ==
    LET inv == calculate_usd_for_target_inr(target, paypal_fee_percent,
                   paypal_fixed_fee_usd, tax_percent, usd_to_inr_rate)
        fwd == calculate_inr_from_usd(inv.value, paypal_fee_percent,
                   paypal_fixed_fee_usd, tax_percent, usd_to_inr_rate)
    IN /\ Len(calls) + 2 <= MaxCalls
       /\ calls' = IF inv.raised
                     THEN Append(calls, Call("inverse", target, inv))
                   ELSE calls \o <<Call("inverse", target, inv),
                                   Call("forward", inv.value, fwd)>>
       /\ display' = IF inv.raised THEN display \o NoticesOf(inv)
                     ELSE display \o NoticesOf(inv) \o NoticesOf(fwd)
       /\ UNCHANGED <<widgets, conc>>

NextCore ==
    \/ \E a \in Amounts : CallForward(a)
    \/ \E a \in Amounts : CallInverse(a)
    \/ \E a \in Amounts : CallRoundTrip(a)

SpecCore == InitCore /\ [][NextCore]_vars

(***************************************************************************)
(* The conversion functions called by concurrent callers, one source line  *)
(* per step.  Each call has a frame of its own for its parameters and      *)
(* local variables; the page st.error writes to is the one thing the       *)
(* calls share.                                                            *)
(***************************************************************************)
\* notices the page holds before callers stop starting calls
MaxNotices == 3

\* a slip: the locals kept in module-level variables, one frame for all
SharedFrame(th) == "t1"

\* the frame a caller's call reads and writes: its own
FrameOf(th) == th

\* arguments the concurrent callers pass
ConcArgs ==
    {<<a, fee, fixed, tax, Rat(82, 1)>> :
        a \in {Rat(0, 1), Rat(100, 1)},
        fee \in {Rat(50, 1), Rat(100, 1)},
        fixed \in {Rat(0, 1), Rat(3, 10)},
        tax \in {Rat(0, 1), Rat(100, 1)}}

Running == {th \in Threads : threads[th].pc \notin {"idle", "done"}}

Local(th) == frame[FrameOf(th)]

\* caller th moves to line pc with its frame changed to fr
Goto(th, pc, fr) ==
    /\ threads' = [threads EXCEPT ![th].pc = pc]
    /\ frame' = [frame EXCEPT ![FrameOf(th)] = fr]
    /\ UNCHANGED <<widgets, display, calls>>

\* caller th's call ends with outcome out
Finish(th, out) ==
    /\ threads' = [threads EXCEPT ![th].pc = "done", ![th].out = out]
    /\ UNCHANGED <<widgets, display, calls, frame>>

\* lines 6-12 and 27-33: the call binds its five parameters
Invoke(th, op, args) ==
    /\ threads[th].pc \in {"idle", "done"}
    /\ Len(display) + Cardinality(Running) < MaxNotices
    /\ threads' = [threads EXCEPT ![th] =
           [pc |-> IF op = "forward" THEN "L18" ELSE "L48",
            op |-> op, args |-> args, notices |-> 0,
            out |-> Returned(Zero, 0)]]
    /\ frame' = [frame EXCEPT ![FrameOf(th)] =
           [NoFrame EXCEPT !.amount = args[1], !.fee_percent = args[2],
                           !.fixed_fee_usd = args[3], !.tax = args[4],
                           !.rate = args[5]]]
    /\ UNCHANGED <<widgets, display, calls>>

Line18(th) ==
    /\ threads[th].pc = "L18"
    /\ Goto(th, "L20", [Local(th) EXCEPT !.net_after_paypal_percent =
           net_after_paypal_percent(Local(th).amount, Local(th).fee_percent)])

Line20(th) ==
    /\ threads[th].pc = "L20"
    /\ Goto(th, "L22", [Local(th) EXCEPT !.net_after_paypal_fees =
           net_after_paypal_fees(Local(th).net_after_paypal_percent,
                                 Local(th).fixed_fee_usd)])

Line22(th) ==
    /\ threads[th].pc = "L22"
    /\ Goto(th, "L24", [Local(th) EXCEPT !.net_after_tax_usd =
           net_after_tax_usd(Local(th).net_after_paypal_fees, Local(th).tax)])

Line24(th) ==
    /\ threads[th].pc = "L24"
    /\ Goto(th, "L25", [Local(th) EXCEPT !.final_inr =
           final_inr(Local(th).net_after_tax_usd, Local(th).rate)])

Line25(th) ==
    /\ threads[th].pc = "L25"
    /\ Finish(th, Returned(Local(th).final_inr, threads[th].notices))

Line48(th) ==
    /\ threads[th].pc = "L48"
    /\ Goto(th, "L49", [Local(th) EXCEPT !.p =
           percent_fraction(Local(th).fee_percent)])

Line49(th) ==
    /\ threads[th].pc = "L49"
    /\ Goto(th, "L50", [Local(th) EXCEPT !.t = percent_fraction(Local(th).tax)])

Line50(th) ==
    /\ threads[th].pc = "L50"
    /\ Goto(th, "L51", [Local(th) EXCEPT !.R = Local(th).rate])

Line51(th) ==
    /\ threads[th].pc = "L51"
    /\ Goto(th, "L60", [Local(th) EXCEPT !.f = Local(th).fixed_fee_usd])

Line60(th) ==
    /\ threads[th].pc = "L60"
    /\ Goto(th, "L61", [Local(th) EXCEPT !.denominator =
           denominator_of(Local(th).R, Local(th).t)])

Line61(th) ==
    /\ threads[th].pc = "L61"
    /\ Goto(th,
            IF invalid_parameters(Local(th).denominator, Local(th).p)
              THEN "L62" ELSE "L65",
            Local(th))

\* line 62: st.error(...) puts the notice on the page
Line62(th) ==
    /\ threads[th].pc = "L62"
    /\ threads' = [threads EXCEPT ![th].pc = "L63",
                                  ![th].notices = threads[th].notices + 1]
    /\ display' = Append(display, ErrorNotice)
    /\ UNCHANGED <<widgets, calls, frame>>

Line63(th) ==
    /\ threads[th].pc = "L63"
    /\ Finish(th, Returned(Zero, threads[th].notices))

Line65(th) ==
    /\ threads[th].pc = "L65"
    /\ IF required_usd_raises(Local(th).amount, Local(th).denominator,
                              Local(th).f, Local(th).p)
         THEN Finish(th, Raised(threads[th].notices))
       ELSE Goto(th, "L69", [Local(th) EXCEPT !.required_usd =
                required_usd(Local(th).amount, Local(th).denominator,
                             Local(th).f, Local(th).p)])

Line69(th) ==
    /\ threads[th].pc = "L69"
    /\ Finish(th, Returned(Local(th).required_usd, threads[th].notices))

InitConc ==
    /\ NoCallers
    /\ paypal_fee_percent = Rat(44, 10)
    /\ paypal_fixed_fee_usd = Rat(30, 100)
    /\ tax_percent = Rat(0, 1)
    /\ usd_to_inr_rate = Rat(82, 1)
    /\ usd_amount = Rat(100, 1)
    /\ inr_target = Rat(10000, 1)
    /\ display = << >>
    /\ calls = << >>

NextConc ==
    \/ \E th \in Threads, args \in ConcArgs : Invoke(th, "forward", args)
    \/ \E th \in Threads, args \in ConcArgs : Invoke(th, "inverse", args)
    \/ \E th \in Threads : Line18(th)
    \/ \E th \in Threads : Line20(th)
    \/ \E th \in Threads : Line22(th)
    \/ \E th \in Threads : Line24(th)
    \/ \E th \in Threads : Line25(th)
    \/ \E th \in Threads : Line48(th)
    \/ \E th \in Threads : Line49(th)
    \/ \E th \in Threads : Line50(th)
    \/ \E th \in Threads : Line51(th)
    \/ \E th \in Threads : Line60(th)
    \/ \E th \in Threads : Line61(th)
    \/ \E th \in Threads : Line62(th)
    \/ \E th \in Threads : Line63(th)
    \/ \E th \in Threads : Line65(th)
    \/ \E th \in Threads : Line69(th)

SpecConc == InitConc /\ [][NextConc]_vars

(***************************************************************************)
(* Properties.                                                             *)
(***************************************************************************)
\* the statements' own conditions and formulas, over a call's arguments
\* <<amount, feePercent, fixedFee, taxPercent, exchangeRate>>
FeeFactor(args) == float_sub(One, float_truediv(args[2], Hundred))

TaxRateFactor(args) ==
    float_mul(args[5], float_sub(One, float_truediv(args[4], Hundred)))

Degenerate(args) == TaxRateFactor(args) = Zero \/ FeeFactor(args) = Zero

NonDegenerate(args) == ~Degenerate(args)

ForwardFormula(args) ==
    float_mul(
        float_mul(
            float_sub(float_mul(args[1], FeeFactor(args)), args[3]),
            float_sub(One, float_truediv(args[4], Hundred))),
        args[5])

InverseFormula(args) ==
    float_truediv(
        float_add(float_truediv(args[1], TaxRateFactor(args)), args[3]),
        FeeFactor(args))

SameParams(a, b) == \A k \in 2 .. 5 : a[k] = b[k]

ForwardCalls == {i \in 1 .. Len(calls) : calls[i].op = "forward"}
InverseCalls == {i \in 1 .. Len(calls) : calls[i].op = "inverse"}

\* a forward call made on the value an inverse call just returned
RoundTrips ==
    {i \in 1 .. Len(calls) - 1 :
        /\ calls[i].op = "inverse"
        /\ calls[i + 1].op = "forward"
        /\ ~calls[i].out.raised
        /\ calls[i + 1].args[1] = calls[i].out.value
        /\ SameParams(calls[i].args, calls[i + 1].args)}

HasNotice(kind, form) ==
    \E k \in 1 .. Len(display) :
        display[k].kind = kind /\ display[k].form = form

\* C1: round trip.  For every target and every non-degenerate parameter
\* tuple, calculate_inr_from_usd applied to what
\* calculate_usd_for_target_inr returned gives back exactly the target
\* (exact arithmetic), also with feePercent > 100 or taxPercent > 100.
C1_RoundTripExact ==
    /\ \A i \in InverseCalls :
           NonDegenerate(calls[i].args) => ~calls[i].out.raised
    /\ \A i \in RoundTrips :
           NonDegenerate(calls[i].args) =>
               /\ ~calls[i + 1].out.raised
               /\ calls[i + 1].out.value = calls[i].args[1]

\* a round trip of a non-zero target with feePercent > 100 and
\* taxPercent > 100 that came back to the target
C1_Witness ==
    \E i \in RoundTrips :
        /\ NonDegenerate(calls[i].args)
        /\ float_lt(Hundred, calls[i].args[2])
        /\ float_lt(Hundred, calls[i].args[4])
        /\ calls[i].args[1] = Rat(10000, 1)
        /\ calls[i].args[3] # Zero
        /\ calls[i + 1].out.value = Rat(10000, 1)

\* C2: degenerate inversion.  calculate_usd_for_target_inr shows the
\* invalid-parameters notice and returns exactly 0.0 if and only if
\* exchangeRate * (1 - taxPercent/100) = 0 or (1 - feePercent/100) = 0;
\* feePercent = 100 is degenerate whatever the rest, so are
\* exchangeRate = 0 and taxPercent = 100; the call never raises
\* (no division by zero).
C2_DegenerateIffSignalled ==
    \A i \in InverseCalls :
        LET c == calls[i] IN
        /\ ~c.out.raised
        /\ c.out.st_error \in {0, 1}
        /\ (c.out.st_error = 1 /\ c.out.value = Zero) <=> Degenerate(c.args)
        /\ c.args[2] = Rat(100, 1) => (c.out.st_error = 1 /\ c.out.value = Zero)
        /\ (c.args[5] = Rat(0, 1) \/ c.args[4] = Rat(100, 1)) =>
               (c.out.st_error = 1 /\ c.out.value = Zero)

\* an inverse call with feePercent = 100 and everything else harmless,
\* signalled and answered with 0.0
C2_Witness ==
    \E i \in InverseCalls :
        /\ calls[i].args[2] = Rat(100, 1)
        /\ calls[i].args[4] = Rat(0, 1)
        /\ calls[i].args[5] = Rat(82, 1)
        /\ calls[i].args[1] = Rat(10000, 1)
        /\ calls[i].out = Returned(Zero, 1)
        /\ display # << >>

\* C4: calculate_inr_from_usd is total and unclamped: it never raises,
\* shows nothing, and returns
\* ((amountUSD * (1 - feePercent/100)) - fixedFee) * (1 - taxPercent/100)
\* * exchangeRate, a negative value included;
\* (100, 4.4, 0.30, 0, 82) gives 7814.6.
C4_ForwardFormula ==
    \A i \in ForwardCalls :
        LET c == calls[i] IN
        /\ ~c.out.raised
        /\ c.out.st_error = 0
        /\ c.out.value = ForwardFormula(c.args)
        /\ c.args = <<Rat(100, 1), Rat(44, 10), Rat(30, 100), Rat(0, 1),
                      Rat(82, 1)>> => c.out.value = Rat(78146, 10)
        /\ (c.args[1] = Rat(0, 1) /\ c.args[2] = Rat(0, 1)
              /\ c.args[3] = Rat(3, 10) /\ c.args[4] = Rat(0, 1)
              /\ c.args[5] = Rat(82, 1)) => c.out.value = Rat(-246, 10)

\* the example call, and a call whose fees exceed the amount and whose
\* result is negative
C4_Witness ==
    /\ \E i \in ForwardCalls :
           /\ calls[i].args = <<Rat(100, 1), Rat(44, 10), Rat(30, 100),
                                Rat(0, 1), Rat(82, 1)>>
           /\ calls[i].out.value = Rat(78146, 10)
    /\ \E i \in ForwardCalls :
           /\ calls[i].args[1] = Rat(0, 1)
           /\ float_lt(calls[i].out.value, Zero)

\* C5: for every non-degenerate parameter tuple and every target,
\* calculate_usd_for_target_inr returns
\* ((targetINR / (exchangeRate * (1 - taxPercent/100))) + fixedFee)
\* / (1 - feePercent/100); (10000, 4.4, 0.30, 0, 82) gives
\* (10000/82 + 0.30) / 0.956 = 12530750/97990.
C5_InverseFormula ==
    \A i \in InverseCalls :
        LET c == calls[i] IN
        NonDegenerate(c.args) =>
            /\ ~c.out.raised
            /\ c.out.st_error = 0
            /\ c.out.value = InverseFormula(c.args)
            /\ c.args = <<Rat(10000, 1), Rat(44, 10), Rat(30, 100), Rat(0, 1),
                          Rat(82, 1)>> => c.out.value = Rat(12530750, 97990)

\* the example call, answered with about 127.88
C5_Witness ==
    \E i \in InverseCalls :
        /\ calls[i].args = <<Rat(10000, 1), Rat(44, 10), Rat(30, 100),
                             Rat(0, 1), Rat(82, 1)>>
        /\ calls[i].out.value = Rat(12530750, 97990)
        /\ Format2f(calls[i].out.value) = 12788

\* what the caller of a finished call holds: the returned number, or the
\* exception
ReturnedToCaller(out) == [raised |-> out.raised, value |-> out.value]

DoneInverse ==
    {th \in Threads : threads[th].pc = "done" /\ threads[th].op = "inverse"}

\* C3 as stated: the inverse conversion hands its caller the number and a
\* degenerate flag, so what a degenerate call returns always differs from
\* what a non-degenerate call returns, also when the latter's answer is 0.0
\* (targetINR = 0 with fixedFee = 0).
C3_ReturnTellsDegenerate ==
    \A a, b \in DoneInverse :
        (Degenerate(threads[a].args) /\ NonDegenerate(threads[b].args)) =>
            ReturnedToCaller(threads[a].out) # ReturnedToCaller(threads[b].out)

\* C3 amended: the inverse conversion returns the number alone; of a
\* degenerate and a non-degenerate call, the first returns 0.0 and has
\* shown the invalid-parameters notice, the second has shown none: the
\* notice, not the returned value, is what tells them apart.
C3_NoticeTellsDegenerate ==
    \A a, b \in DoneInverse :
        (Degenerate(threads[a].args) /\ NonDegenerate(threads[b].args)) =>
            /\ ReturnedToCaller(threads[a].out) = [raised |-> FALSE, value |-> Zero]
            /\ ~threads[b].out.raised
            /\ threads[a].out.st_error = 1
            /\ threads[b].out.st_error = 0

\* a degenerate call and a non-degenerate call with targetINR = 0 and
\* fixedFee = 0 that returned the same 0.0
C3_Witness ==
    \E a, b \in DoneInverse :
        /\ Degenerate(threads[a].args)
        /\ NonDegenerate(threads[b].args)
        /\ threads[b].args[1] = Rat(0, 1)
        /\ threads[b].args[3] = Rat(0, 1)
        /\ ReturnedToCaller(threads[a].out) = ReturnedToCaller(threads[b].out)
        /\ threads[a].out.st_error = 1
        /\ threads[b].out.st_error = 0

\* C6 as stated: for fixed non-degenerate parameters with
\* (1 - feePercent/100) > 0, calculate_inr_from_usd is strictly increasing
\* in amountUSD.
C6_IncreasingIfFeeFactorPositive ==
    \A i, j \in ForwardCalls :
        (/\ SameParams(calls[i].args, calls[j].args)
         /\ NonDegenerate(calls[i].args)
         /\ float_lt(Zero, FeeFactor(calls[i].args))
         /\ float_lt(calls[i].args[1], calls[j].args[1])) =>
            float_lt(calls[i].out.value, calls[j].out.value)

\* C6 amended: for fixed parameters with (1 - feePercent/100) > 0 and
\* exchangeRate * (1 - taxPercent/100) > 0, calculate_inr_from_usd is
\* strictly increasing in amountUSD.
C6_IncreasingIfBothFactorsPositive ==
    \A i, j \in ForwardCalls :
        (/\ SameParams(calls[i].args, calls[j].args)
         /\ float_lt(Zero, FeeFactor(calls[i].args))
         /\ float_lt(Zero, TaxRateFactor(calls[i].args))
         /\ float_lt(calls[i].args[1], calls[j].args[1])) =>
            float_lt(calls[i].out.value, calls[j].out.value)

\* two forward calls with the default parameters, the smaller amount giving
\* the smaller result
C6_Witness ==
    \E i, j \in ForwardCalls :
        /\ SameParams(calls[i].args, calls[j].args)
        /\ calls[i].args[2] = Rat(44, 10)
        /\ calls[i].args[4] = Rat(50, 1)
        /\ calls[i].args[5] = Rat(82, 1)
        /\ calls[i].args[1] = Rat(-100, 1)
        /\ calls[j].args[1] = Rat(100, 1)
        /\ float_lt(calls[i].out.value, calls[j].out.value)

\* C7: a "Calculate USD" submission with degenerate parameters shows the
\* error notice and no success message with a required-USD amount; that
\* success message is shown only when the inversion was not degenerate.
C7_DegenerateShowsNoAnswer ==
    \A i \in InverseCalls :
        /\ Degenerate(calls[i].args) =>
               /\ HasNotice("error", "none")
               /\ ~HasNotice("success", "inr_to_usd")
        /\ HasNotice("success", "inr_to_usd") => NonDegenerate(calls[i].args)

\* C8 as stated: neither conversion function shows anything: every call,
\* degenerate or not, leaves the page as it was.
C8_CoreShowsNothing ==
    /\ \A i \in 1 .. Len(calls) : calls[i].out.st_error = 0
    /\ display = << >>

\* C8 amended: calculate_inr_from_usd shows nothing;
\* calculate_usd_for_target_inr shows exactly one notice, the
\* invalid-parameters error, when its parameters are degenerate, and nothing
\* otherwise: the page holds one error notice per degenerate inverse call
\* and nothing else.
C8_OneNoticePerDegenerateCall ==
    /\ \A i \in ForwardCalls : calls[i].out.st_error = 0
    /\ \A i \in InverseCalls :
           calls[i].out.st_error = (IF Degenerate(calls[i].args) THEN 1 ELSE 0)
    /\ Len(display) =
           Cardinality({i \in InverseCalls : Degenerate(calls[i].args)})
    /\ \A k \in 1 .. Len(display) : display[k] = ErrorNotice

\* two degenerate inverse calls and two notices on the page
C8_Witness ==
    /\ Len(calls) = 2
    /\ \A i \in 1 .. Len(calls) :
           calls[i].op = "inverse" /\ Degenerate(calls[i].args)
    /\ display = <<ErrorNotice, ErrorNotice>>

\* the outcome of a call made alone, in one step
OutcomeAlone(op, args) ==
    IF op = "forward"
      THEN calculate_inr_from_usd(args[1], args[2], args[3], args[4], args[5])
    ELSE calculate_usd_for_target_inr(args[1], args[2], args[3], args[4],
                                      args[5])

Done == {th \in Threads : threads[th].pc = "done"}

\* C9: independence of invocations.  However the callers' steps interleave
\* and whatever calls came before, what a call returns and whether it shows
\* the invalid-parameters notice are those of the same call made alone with
\* its own five arguments; calls with equal arguments end alike.
C9_OutcomeOfOwnArguments ==
    /\ \A th \in Done :
           threads[th].out = OutcomeAlone(threads[th].op, threads[th].args)
    /\ \A a, b \in Done :
           (threads[a].op = threads[b].op /\ threads[a].args = threads[b].args)
               => threads[a].out = threads[b].out

\* after earlier calls left notices on the page, two calls with different
\* arguments have ended, one signalled and one answered
C9_Witness ==
    /\ Len(display) >= 2
    /\ threads["t1"].pc = "done"
    /\ threads["t2"].pc = "done"
    /\ threads["t1"].op = "inverse"
    /\ threads["t2"].op = "inverse"
    /\ threads["t1"].args[2] = Rat(100, 1)
    /\ threads["t2"].args[2] = Rat(50, 1)
    /\ threads["t2"].args[4] = Rat(0, 1)
    /\ threads["t1"].out = Returned(Zero, 1)
    /\ threads["t2"].out.st_error = 0
    /\ threads["t2"].out.value # Zero

\* C10: with what the widgets accept (percentages and amounts >= 0, the
\* rate >= 1), a "Calculate USD" run shows the invalid-parameters notice
\* exactly when feePercent = 100 or taxPercent = 100, the rate is never 0,
\* and a "Calculate INR" run shows no error notice.
C10_UiInvalidOnlyAt100 ==
    /\ usd_to_inr_rate # Rat(0, 1)
    /\ \A i \in InverseCalls :
           /\ calls[i].args[5] # Rat(0, 1)
           /\ ~calls[i].out.raised
           /\ HasNotice("error", "none") <=>
                  (calls[i].args[2] = Rat(100, 1) \/ calls[i].args[4] = Rat(100, 1))
    /\ \A i \in ForwardCalls :
           /\ ~HasNotice("error", "none")
           /\ ~HasNotice("exception", "none")

\* a "Calculate USD" run with taxPercent = 100 and feePercent = 4.4 that
\* shows the error notice
C10_Witness ==
    \E i \in InverseCalls :
        /\ calls[i].args[4] = Rat(100, 1)
        /\ calls[i].args[2] = Rat(44, 10)
        /\ HasNotice("error", "none")

=============================================================================
